---- MODULE Spec2Model ----
(***************************************************************************)
(* Model of the circular byte buffer of circularBuffer.c / circularBuffer.h *)
(* (cBuffer_t and the cBuffer_* functions).  The buffer is the record       *)
(* cBuffer = [data, front, rear]; every cBuffer_* function is an operator   *)
(* computed as the C code computes it, and one action per public function   *)
(* applies it to the buffer and records the call in `last`.                 *)
(***************************************************************************)
EXTENDS Integers, Sequences, FiniteSets, TLC

(* ------------------------------ bounds -------------------------------- *)
\* Number of slots of the backing array (C_BUFFER_SIZE, 50 in the header,
\* "update to fit your application needs"); scaled down for checking.
C_BUFFER_SIZE == 4
\* Byte values are 0..MaxByte (uint8_t scaled down); 0 is the terminator.
MaxByte == 1
\* Longest string handed to cBuffer_add_string.
MaxStrLen == 2
\* Width in bits of the unsigned index type (uint32_t scaled down).
UINT_BITS == 16
\* Successful byte pushes counted since the last cBuffer_Init.
MaxPushed == 7

UINT_MOD == 2 ^ UINT_BITS

Byte == 0 .. MaxByte
Index == 0 .. (C_BUFFER_SIZE - 1)
\* C strings: the characters before the first 0 byte.
Strings == UNION {[1 .. k -> 1 .. MaxByte] : k \in 0 .. MaxStrLen}

(* --------------------------- status codes ----------------------------- *)
CBUFFER_SUCCESS == 0
CBUFFER_EMPTY == -1
CBUFFER_FULL == -2
CBUFFER_OVERFLOW == -3
CBUFFER_FAIL == -4

\* An out-parameter or destination slot the function did not write.
NoWrite == -1

(* ----------------------- unsigned arithmetic -------------------------- *)
UAdd(a, b) == (a + b) % UINT_MOD
USub(a, b) == (a - b) % UINT_MOD

(* ------------------------------ state --------------------------------- *)
VARIABLES
    cBuffer,   \* the cBuffer_t object: [data, front, rear]
    queue,     \* history: bytes pushed with CBUFFER_SUCCESS and not yet popped
    pushed,    \* history: bytes pushed by successful calls since cBuffer_Init
    popped,    \* history: bytes popped by successful calls since cBuffer_Init
    pushRun,   \* history: cBuffer_add_char calls made right after cBuffer_Init
    last,      \* the most recent call: arguments, results, buffer before it
    prior,     \* the call before `last`, when it was a successful
               \* cBuffer_add_string
    cycle,     \* history: the cBuffer_add_char calls made since the buffer
               \* was empty and the cBuffer_read_char calls after them
    race       \* the positions of a producer and a consumer that run
               \* cBuffer_add_char and cBuffer_read_char statement by
               \* statement (used by SpecRace only)

vars == <<cBuffer, queue, pushed, popped, pushRun, last, prior, cycle, race>>

(* ---------------------------- functions ------------------------------- *)
cBuffer_Init(cb) ==
    [data |-> [i \in Index |-> 0], front |-> 0, rear |-> 0]

\* Mutant: the buffer is marked empty and its data left as it is.
Clean_marks_empty(cb) == [cb EXCEPT !.front = 0, !.rear = 0]

cBuffer_Clean(cb) == cBuffer_Init(cb)

\* Mutant: the unwrapped branch forgets the reserved slot.
get_availableSpace_no_reserve(cb) ==
    IF cb.front > cb.rear
    THEN USub(USub(cb.front, cb.rear), 1)
    ELSE USub(C_BUFFER_SIZE, USub(cb.rear, cb.front))

\* Mutant: the wrapped branch forgets the reserved slot.
get_availableSpace_wrapped_no_reserve(cb) ==
    IF cb.front > cb.rear
    THEN USub(cb.front, cb.rear)
    ELSE USub(C_BUFFER_SIZE, UAdd(USub(cb.rear, cb.front), 1))

\* Mutant: the wrapped branch is taken when front = rear too.
get_availableSpace_wrong_branch(cb) ==
    IF cb.front >= cb.rear
    THEN USub(USub(cb.front, cb.rear), 1)
    ELSE USub(C_BUFFER_SIZE, UAdd(USub(cb.rear, cb.front), 1))

cBuffer_get_availableSpace(cb) ==
    IF cb.front > cb.rear
    THEN USub(USub(cb.front, cb.rear), 1)
    ELSE USub(C_BUFFER_SIZE, UAdd(USub(cb.rear, cb.front), 1))

\* Mutant: the wrapped branch subtracts the reserved slot.
get_usedSpace_wrapped_off_by_one(cb) ==
    IF cb.rear >= cb.front
    THEN USub(cb.rear, cb.front)
    ELSE USub(USub(C_BUFFER_SIZE, 1), USub(cb.front, cb.rear))

cBuffer_get_usedSpace(cb) ==
    IF cb.rear >= cb.front
    THEN USub(cb.rear, cb.front)
    ELSE USub(C_BUFFER_SIZE, USub(cb.front, cb.rear))

\* Mutant: the byte is stored at rear before rear is advanced.
add_char_store_then_advance(cb, data) ==
    IF ~((UAdd(cb.rear, 1) % C_BUFFER_SIZE) = cb.front)
    THEN LET rear == UAdd(cb.rear, 1) % C_BUFFER_SIZE
         IN  [cBuffer |-> [cb EXCEPT !.rear = rear, !.data[cb.rear] = data],
              status |-> CBUFFER_SUCCESS]
    ELSE [cBuffer |-> cb, status |-> CBUFFER_FULL]

\* Mutant: the full test compares rear + 1 with front without the modulo.
add_char_full_unwrapped(cb, data) ==
    IF ~(UAdd(cb.rear, 1) = cb.front)
    THEN LET rear == UAdd(cb.rear, 1) % C_BUFFER_SIZE
         IN  [cBuffer |-> [cb EXCEPT !.rear = rear, !.data[rear] = data],
              status |-> CBUFFER_SUCCESS]
    ELSE [cBuffer |-> cb, status |-> CBUFFER_FULL]

\* Mutant: rear is advanced without the modulo.
add_char_no_wrap(cb, data) ==
    IF ~((UAdd(cb.rear, 1) % C_BUFFER_SIZE) = cb.front)
    THEN LET rear == UAdd(cb.rear, 1)
         IN  [cBuffer |-> [cb EXCEPT !.rear = rear,
                                    !.data[rear % C_BUFFER_SIZE] = data],
              status |-> CBUFFER_SUCCESS]
    ELSE [cBuffer |-> cb, status |-> CBUFFER_FULL]

cBuffer_add_char(cb, data) ==
    IF ~((UAdd(cb.rear, 1) % C_BUFFER_SIZE) = cb.front)
    THEN LET rear == UAdd(cb.rear, 1) % C_BUFFER_SIZE
         IN  [cBuffer |-> [cb EXCEPT !.rear = rear, !.data[rear] = data],
              status |-> CBUFFER_SUCCESS]
    ELSE [cBuffer |-> cb, status |-> CBUFFER_FULL]

\* Mutant: the empty test is front >= rear, which ignores wrapped buffers.
read_char_empty_unwrapped(cb) ==
    IF cb.front < cb.rear
    THEN LET front == UAdd(cb.front, 1) % C_BUFFER_SIZE
         IN  [cBuffer |-> [cb EXCEPT !.front = front],
              readChar |-> cb.data[front],
              status |-> CBUFFER_SUCCESS]
    ELSE [cBuffer |-> cb, readChar |-> NoWrite, status |-> CBUFFER_EMPTY]

cBuffer_read_char(cb) ==
    IF ~(cb.front = cb.rear)
    THEN LET front == UAdd(cb.front, 1) % C_BUFFER_SIZE
         IN  [cBuffer |-> [cb EXCEPT !.front = front],
              readChar |-> cb.data[front],
              status |-> CBUFFER_SUCCESS]
    ELSE [cBuffer |-> cb, readChar |-> NoWrite, status |-> CBUFFER_EMPTY]

\* Mutant: the byte is stored in the next slot first and rear is advanced
\* second.
add_char_stmt_store_first(pc, cb, data) ==
    IF pc = "check"
    THEN IF ~((UAdd(cb.rear, 1) % C_BUFFER_SIZE) = cb.front)
         THEN [cBuffer |-> cb, pc |-> "advance", status |-> NoWrite]
         ELSE [cBuffer |-> cb, pc |-> "idle", status |-> CBUFFER_FULL]
    ELSE IF pc = "advance"
         THEN [cBuffer |-> [cb EXCEPT
                    !.data[UAdd(cb.rear, 1) % C_BUFFER_SIZE] = data],
               pc |-> "store", status |-> NoWrite]
         ELSE [cBuffer |-> [cb EXCEPT
                    !.rear = UAdd(cb.rear, 1) % C_BUFFER_SIZE],
               pc |-> "idle", status |-> CBUFFER_SUCCESS]

\* cBuffer_add_char one statement at a time: the statement at pc is run on
\* cb; pc is "check" (the if), "advance" (rear = ...) or "store"
\* (data[rear] = data), and "idle" once the function has returned.
add_char_stmt(pc, cb, data) ==
    IF pc = "check"
    THEN IF ~((UAdd(cb.rear, 1) % C_BUFFER_SIZE) = cb.front)
         THEN [cBuffer |-> cb, pc |-> "advance", status |-> NoWrite]
         ELSE [cBuffer |-> cb, pc |-> "idle", status |-> CBUFFER_FULL]
    ELSE IF pc = "advance"
         THEN [cBuffer |-> [cb EXCEPT
                    !.rear = UAdd(cb.rear, 1) % C_BUFFER_SIZE],
               pc |-> "store", status |-> NoWrite]
         ELSE [cBuffer |-> [cb EXCEPT !.data[cb.rear] = data],
               pc |-> "idle", status |-> CBUFFER_SUCCESS]

\* cBuffer_read_char one statement at a time: pc is "check" (the if),
\* "advance" (front = ...) or "load" (*readChar = data[front]).
read_char_stmt(pc, cb) ==
    IF pc = "check"
    THEN IF ~(cb.front = cb.rear)
         THEN [cBuffer |-> cb, pc |-> "advance", status |-> NoWrite,
               readChar |-> NoWrite]
         ELSE [cBuffer |-> cb, pc |-> "idle", status |-> CBUFFER_EMPTY,
               readChar |-> NoWrite]
    ELSE IF pc = "advance"
         THEN [cBuffer |-> [cb EXCEPT
                    !.front = UAdd(cb.front, 1) % C_BUFFER_SIZE],
               pc |-> "load", status |-> NoWrite, readChar |-> NoWrite]
         ELSE [cBuffer |-> cb, pc |-> "idle", status |-> CBUFFER_SUCCESS,
               readChar |-> cb.data[cb.front]]

\* The for loop of cBuffer_add_string; `inner` collects the statuses the
\* loop ignores.
RECURSIVE add_string_loop(_, _, _, _, _)
add_string_loop(cb, stringData, i, str_length, inner) ==
    IF i < str_length
    THEN LET r == cBuffer_add_char(cb, stringData[i + 1])
         IN  add_string_loop(r.cBuffer, stringData, i + 1, str_length,
                             Append(inner, r.status))
    ELSE [cBuffer |-> cb, inner |-> inner]

\* Mutant: the space check leaves no room for the terminator.
add_string_no_terminator_room(cb, stringData) ==
    LET str_length == Len(stringData)
        buffer_spaceAvailable == cBuffer_get_availableSpace(cb)
    IN  IF buffer_spaceAvailable < str_length
        THEN [cBuffer |-> cb, status |-> CBUFFER_OVERFLOW, inner |-> <<>>]
        ELSE LET l == add_string_loop(cb, stringData, 0, str_length, <<>>)
                 t == cBuffer_add_char(l.cBuffer, 0)
             IN  [cBuffer |-> t.cBuffer, status |-> CBUFFER_SUCCESS,
                  inner |-> Append(l.inner, t.status)]

\* Mutant: the terminator is not stored in the buffer.
add_string_no_terminator(cb, stringData) ==
    LET str_length == Len(stringData)
        buffer_spaceAvailable == cBuffer_get_availableSpace(cb)
    IN  IF buffer_spaceAvailable < UAdd(str_length, 1)
        THEN [cBuffer |-> cb, status |-> CBUFFER_OVERFLOW, inner |-> <<>>]
        ELSE LET l == add_string_loop(cb, stringData, 0, str_length, <<>>)
             IN  [cBuffer |-> l.cBuffer, status |-> CBUFFER_SUCCESS,
                  inner |-> l.inner]

cBuffer_add_string(cb, stringData) ==
    LET str_length == Len(stringData)
        buffer_spaceAvailable == cBuffer_get_availableSpace(cb)
    IN  IF buffer_spaceAvailable < UAdd(str_length, 1)
        THEN [cBuffer |-> cb, status |-> CBUFFER_OVERFLOW, inner |-> <<>>]
        ELSE LET l == add_string_loop(cb, stringData, 0, str_length, <<>>)
                 t == cBuffer_add_char(l.cBuffer, 0)
             IN  [cBuffer |-> t.cBuffer, status |-> CBUFFER_SUCCESS,
                  inner |-> Append(l.inner, t.status)]

\* Mutant: the logical index is mapped without the + 1.
peek_no_offset(cb, peekIndex) ==
    LET data_inSourceBuffer == cBuffer_get_usedSpace(cb)
    IN  IF peekIndex >= data_inSourceBuffer
        THEN [cBuffer |-> cb, peekResult |-> NoWrite,
              actualIndex |-> NoWrite, status |-> CBUFFER_FAIL]
        ELSE LET actualIndex == UAdd(cb.front, peekIndex) % C_BUFFER_SIZE
             IN  [cBuffer |-> cb, peekResult |-> cb.data[actualIndex],
                  actualIndex |-> actualIndex,
                  status |-> CBUFFER_SUCCESS]

\* Mutant: a successful peek consumes the bytes up to the one it returns.
peek_consumes(cb, peekIndex) ==
    LET data_inSourceBuffer == cBuffer_get_usedSpace(cb)
    IN  IF peekIndex >= data_inSourceBuffer
        THEN [cBuffer |-> cb, peekResult |-> NoWrite,
              actualIndex |-> NoWrite, status |-> CBUFFER_FAIL]
        ELSE LET actualIndex ==
                     UAdd(UAdd(cb.front, peekIndex), 1) % C_BUFFER_SIZE
             IN  [cBuffer |-> [cb EXCEPT !.front = actualIndex],
                  peekResult |-> cb.data[actualIndex],
                  actualIndex |-> actualIndex,
                  status |-> CBUFFER_SUCCESS]

cBuffer_peek(cb, peekIndex) ==
    LET data_inSourceBuffer == cBuffer_get_usedSpace(cb)
    IN  IF peekIndex >= data_inSourceBuffer
        THEN [cBuffer |-> cb, peekResult |-> NoWrite,
              actualIndex |-> NoWrite, status |-> CBUFFER_FAIL]
        ELSE LET actualIndex ==
                     UAdd(UAdd(cb.front, peekIndex), 1) % C_BUFFER_SIZE
             IN  [cBuffer |-> cb, peekResult |-> cb.data[actualIndex],
                  actualIndex |-> actualIndex,
                  status |-> CBUFFER_SUCCESS]

\* Mutant: the loop stops once it has copied a 0 byte.
RECURSIVE read_string_loop_stops_at_nul(_, _, _, _, _)
read_string_loop_stops_at_nul(cb, i, str_length, dest, inner) ==
    IF i < str_length /\ (dest = <<>> \/ dest[Len(dest)] # 0)
    THEN LET r == cBuffer_read_char(cb)
         IN  read_string_loop_stops_at_nul(r.cBuffer, i + 1, str_length,
                                           Append(dest, r.readChar),
                                           Append(inner, r.status))
    ELSE [cBuffer |-> cb, dest |-> dest, inner |-> inner]

\* The for loop of cBuffer_read_string; dest[i + 1] models
\* DestinationBuffer[i].
RECURSIVE read_string_loop(_, _, _, _, _)
read_string_loop(cb, i, str_length, dest, inner) ==
    IF i < str_length
    THEN LET r == cBuffer_read_char(cb)
         IN  read_string_loop(r.cBuffer, i + 1, str_length,
                              Append(dest, r.readChar),
                              Append(inner, r.status))
    ELSE [cBuffer |-> cb, dest |-> dest, inner |-> inner]

\* Mutant: the check asks for the available space, not the used space.
read_string_checks_available(cb, str_length) ==
    LET data_inSourceBuffer == cBuffer_get_availableSpace(cb)
    IN  IF data_inSourceBuffer < str_length
        THEN [cBuffer |-> cb, dest |-> <<>>, inner |-> <<>>,
              status |-> CBUFFER_FAIL]
        ELSE LET l == read_string_loop(cb, 0, str_length, <<>>, <<>>)
             IN  [cBuffer |-> l.cBuffer, dest |-> Append(l.dest, 0),
                  inner |-> l.inner, status |-> CBUFFER_SUCCESS]

\* Mutant: the check lets through a request for one byte more than the
\* buffer holds.
read_string_check_off_by_one(cb, str_length) ==
    LET data_inSourceBuffer == cBuffer_get_usedSpace(cb)
    IN  IF UAdd(data_inSourceBuffer, 1) < str_length
        THEN [cBuffer |-> cb, dest |-> <<>>, inner |-> <<>>,
              status |-> CBUFFER_FAIL]
        ELSE LET l == read_string_loop(cb, 0, str_length, <<>>, <<>>)
             IN  [cBuffer |-> l.cBuffer, dest |-> Append(l.dest, 0),
                  inner |-> l.inner, status |-> CBUFFER_SUCCESS]

cBuffer_read_string(cb, str_length) ==
    LET data_inSourceBuffer == cBuffer_get_usedSpace(cb)
    IN  IF data_inSourceBuffer < str_length
        THEN [cBuffer |-> cb, dest |-> <<>>, inner |-> <<>>,
              status |-> CBUFFER_FAIL]
        ELSE LET l == read_string_loop(cb, 0, str_length, <<>>, <<>>)
             IN  [cBuffer |-> l.cBuffer, dest |-> Append(l.dest, 0),
                  inner |-> l.inner, status |-> CBUFFER_SUCCESS]

(* ------------------------- history helpers ---------------------------- *)
\* The bytes of `bytes` whose push returned CBUFFER_SUCCESS.
RECURSIVE Accepted(_, _)
Accepted(bytes, inner) ==
    IF bytes = <<>> \/ inner = <<>>
    THEN <<>>
    ELSE IF Head(inner) = CBUFFER_SUCCESS
         THEN <<Head(bytes)>> \o Accepted(Tail(bytes), Tail(inner))
         ELSE Accepted(Tail(bytes), Tail(inner))

\* How many of the statuses are CBUFFER_SUCCESS.
Successes(inner) ==
    Cardinality({i \in 1 .. Len(inner) : inner[i] = CBUFFER_SUCCESS})

\* The record of a call; fields a call does not have keep these values.
NoCall ==
    [op |-> "cBuffer_Init", status |-> CBUFFER_SUCCESS, data |-> NoWrite,
     stringData |-> <<>>, str_length |-> 0, peekIndex |-> 0,
     out |-> NoWrite, dest |-> <<>>, inner |-> <<>>, idx |-> NoWrite,
     pre |-> cBuffer_Init(<<>>), preQueue |-> <<>>]

Call(op, cb) == [NoCall EXCEPT !.op = op, !.pre = cb, !.preQueue = queue]

NoPrior == [op |-> "other", stringData |-> <<>>, wasEmpty |-> FALSE]

\* What `prior` keeps of a call once another call follows it.
Summary(l) ==
    IF l.op = "cBuffer_add_string" /\ l.status = CBUFFER_SUCCESS
    THEN [op |-> l.op, stringData |-> l.stringData,
          wasEmpty |-> l.pre.front = l.pre.rear]
    ELSE NoPrior

NoCycle == [start |-> -1, pushes |-> 0, pops |-> 0, sent |-> <<>>,
            got |-> <<>>]

\* `cycle` after a call of op on buffer cb that returned status; byte is
\* the byte pushed or popped.
CycleStep(op, cb, status, byte) ==
    LET ok == status = CBUFFER_SUCCESS
    IN  IF op = "cBuffer_add_char"
        THEN IF cb.front = cb.rear
             THEN [start |-> cb.front, pushes |-> 1, pops |-> 0,
                   sent |-> IF ok THEN <<byte>> ELSE <<>>, got |-> <<>>]
             ELSE IF cycle.pushes \in 1 .. (C_BUFFER_SIZE - 1)
                     /\ cycle.pops = 0
                  THEN [cycle EXCEPT
                           !.pushes = @ + 1,
                           !.sent = IF ok THEN Append(@, byte) ELSE @]
                  ELSE NoCycle
        ELSE IF op = "cBuffer_read_char"
             THEN IF cycle.pushes \in {C_BUFFER_SIZE - 1, C_BUFFER_SIZE}
                     /\ cycle.pops < C_BUFFER_SIZE
                  THEN [cycle EXCEPT
                           !.pops = @ + 1,
                           !.got = IF ok THEN Append(@, byte) ELSE @]
                  ELSE NoCycle
             ELSE NoCycle

\* No producer or consumer is inside a call.
NoRace ==
    [ppc |-> "idle", pdata |-> NoWrite, pstatus |-> NoWrite,
     pEmpty |-> FALSE, stale |-> NoWrite,
     cpc |-> "idle", cstatus |-> NoWrite, cout |-> NoWrite,
     cdone |-> FALSE, between |-> FALSE]

(* ------------------------------ actions ------------------------------- *)
Init ==
    /\ cBuffer = cBuffer_Init(<<>>)
    /\ queue = <<>>
    /\ pushed = 0
    /\ popped = 0
    /\ pushRun = 0
    /\ last = NoCall
    /\ prior = NoPrior
    /\ cycle = NoCycle
    /\ race = NoRace

DoInit ==
    /\ cBuffer' = cBuffer_Init(cBuffer)
    /\ queue' = <<>>
    /\ pushed' = 0
    /\ popped' = 0
    /\ pushRun' = 0
    /\ last' = Call("cBuffer_Init", cBuffer)
    /\ prior' = Summary(last)
    /\ cycle' = CycleStep("cBuffer_Init", cBuffer, CBUFFER_SUCCESS, NoWrite)
    /\ race' = race

DoClean ==
    /\ cBuffer' = cBuffer_Clean(cBuffer)
    /\ queue' = <<>>
    /\ pushed' = 0
    /\ popped' = 0
    /\ pushRun' = 0
    /\ last' = Call("cBuffer_Clean", cBuffer)
    /\ prior' = Summary(last)
    /\ cycle' = CycleStep("cBuffer_Clean", cBuffer, CBUFFER_SUCCESS, NoWrite)
    /\ race' = race

DoAddChar ==
    \E data \in Byte :
        LET r == cBuffer_add_char(cBuffer, data)
            ok == r.status = CBUFFER_SUCCESS
        IN  /\ ok => pushed < MaxPushed
            /\ cBuffer' = r.cBuffer
            /\ queue' = IF ok THEN Append(queue, data) ELSE queue
            /\ pushed' = IF ok THEN pushed + 1 ELSE pushed
            /\ popped' = popped
            /\ pushRun' = IF pushRun \in 0 .. (C_BUFFER_SIZE - 1)
                          THEN pushRun + 1 ELSE -1
            /\ last' = [Call("cBuffer_add_char", cBuffer) EXCEPT
                            !.status = r.status, !.data = data,
                            !.idx = IF ok THEN r.cBuffer.rear ELSE NoWrite]
            /\ prior' = Summary(last)
            /\ cycle' = CycleStep("cBuffer_add_char", cBuffer, r.status, data)
            /\ race' = race

DoReadChar ==
    LET r == cBuffer_read_char(cBuffer)
        ok == r.status = CBUFFER_SUCCESS
    IN  /\ cBuffer' = r.cBuffer
        /\ queue' = IF ok THEN SubSeq(queue, 2, Len(queue)) ELSE queue
        /\ popped' = IF ok THEN popped + 1 ELSE popped
        /\ pushed' = pushed
        /\ pushRun' = -1
        /\ last' = [Call("cBuffer_read_char", cBuffer) EXCEPT
                        !.status = r.status, !.out = r.readChar,
                        !.idx = IF ok THEN r.cBuffer.front ELSE NoWrite]
        /\ prior' = Summary(last)
        /\ cycle' = CycleStep("cBuffer_read_char", cBuffer, r.status,
                            r.readChar)
        /\ race' = race

DoAddString ==
    \E stringData \in Strings :
        LET r == cBuffer_add_string(cBuffer, stringData)
            acc == Accepted(Append(stringData, 0), r.inner)
        IN  /\ pushed + Len(stringData) + 1 <= MaxPushed
            /\ cBuffer' = r.cBuffer
            /\ queue' = queue \o acc
            /\ pushed' = IF r.status = CBUFFER_SUCCESS
                          THEN pushed + Len(stringData) + 1 ELSE pushed
            /\ popped' = popped
            /\ pushRun' = -1
            /\ last' = [Call("cBuffer_add_string", cBuffer) EXCEPT
                            !.status = r.status, !.stringData = stringData,
                            !.inner = r.inner]
            /\ prior' = Summary(last)
            /\ cycle' = CycleStep("cBuffer_add_string", cBuffer, r.status,
                                NoWrite)
            /\ race' = race

DoReadString ==
    \E str_length \in 0 .. C_BUFFER_SIZE :
        LET r == cBuffer_read_string(cBuffer, str_length)
            k == Successes(r.inner)
        IN  /\ cBuffer' = r.cBuffer
            /\ queue' = SubSeq(queue, k + 1, Len(queue))
            /\ popped' = IF r.status = CBUFFER_SUCCESS
                          THEN popped + str_length ELSE popped
            /\ pushed' = pushed
            /\ pushRun' = -1
            /\ last' = [Call("cBuffer_read_string", cBuffer) EXCEPT
                            !.status = r.status, !.str_length = str_length,
                            !.dest = r.dest, !.inner = r.inner]
            /\ prior' = Summary(last)
            /\ cycle' = CycleStep("cBuffer_read_string", cBuffer, r.status,
                                NoWrite)
            /\ race' = race

DoPeek ==
    \E peekIndex \in 0 .. C_BUFFER_SIZE :
        LET r == cBuffer_peek(cBuffer, peekIndex)
        IN  /\ cBuffer' = r.cBuffer
            /\ last' = [Call("cBuffer_peek", cBuffer) EXCEPT
                            !.status = r.status, !.peekIndex = peekIndex,
                            !.out = r.peekResult, !.idx = r.actualIndex]
            /\ pushRun' = -1
            /\ prior' = Summary(last)
            /\ cycle' = CycleStep("cBuffer_peek", cBuffer, r.status, NoWrite)
            /\ race' = race
            /\ UNCHANGED <<queue, pushed, popped>>

DoGetAvailableSpace ==
    /\ last' = [Call("cBuffer_get_availableSpace", cBuffer) EXCEPT
                    !.out = cBuffer_get_availableSpace(cBuffer)]
    /\ pushRun' = -1
    /\ prior' = Summary(last)
    /\ cycle' = CycleStep("cBuffer_get_availableSpace", cBuffer,
                        CBUFFER_SUCCESS, NoWrite)
    /\ race' = race
    /\ UNCHANGED <<cBuffer, queue, pushed, popped>>

DoGetUsedSpace ==
    /\ last' = [Call("cBuffer_get_usedSpace", cBuffer) EXCEPT
                    !.out = cBuffer_get_usedSpace(cBuffer)]
    /\ pushRun' = -1
    /\ prior' = Summary(last)
    /\ cycle' = CycleStep("cBuffer_get_usedSpace", cBuffer,
                        CBUFFER_SUCCESS, NoWrite)
    /\ race' = race
    /\ UNCHANGED <<cBuffer, queue, pushed, popped>>

Next ==
    \/ DoInit
    \/ DoClean
    \/ DoAddChar
    \/ DoReadChar
    \/ DoAddString
    \/ DoReadString
    \/ DoPeek
    \/ DoGetAvailableSpace
    \/ DoGetUsedSpace

Spec == Init /\ [][Next]_vars

(* ------------- producer and consumer without serialization ------------ *)
\* The producer enters cBuffer_add_char and runs its if.
ProducerCall ==
    \E data \in Byte :
        LET r == add_char_stmt("check", cBuffer, data)
        IN  /\ race.ppc = "idle"
            /\ pushed < MaxPushed
            /\ cBuffer' = r.cBuffer
            /\ race' = [race EXCEPT
                            !.ppc = r.pc, !.pdata = data,
                            !.pstatus = r.status,
                            !.pEmpty = cBuffer.front = cBuffer.rear,
                            !.stale = cBuffer.data[
                                (cBuffer.rear + 1) % C_BUFFER_SIZE],
                            !.between = FALSE]
            /\ pushed' = IF r.pc = "idle" THEN pushed ELSE pushed + 1
            /\ UNCHANGED <<queue, popped, pushRun, last, prior, cycle>>

\* The producer runs its next statement.
ProducerStep ==
    LET r == add_char_stmt(race.ppc, cBuffer, race.pdata)
    IN  /\ race.ppc \in {"advance", "store"}
        /\ cBuffer' = r.cBuffer
        /\ race' = [race EXCEPT !.ppc = r.pc, !.pstatus = r.status,
                                !.between = FALSE]
        /\ UNCHANGED <<queue, pushed, popped, pushRun, last, prior, cycle>>

\* The consumer enters cBuffer_read_char and runs its if; `between` says
\* that the producer stands between its two assignments, in a push it
\* began on an empty buffer, and that no other pop has begun since.
ConsumerCall ==
    LET r == read_char_stmt("check", cBuffer)
    IN  /\ race.cpc = "idle"
        /\ cBuffer' = r.cBuffer
        /\ race' = [race EXCEPT
                        !.cpc = r.pc, !.cstatus = r.status,
                        !.cout = r.readChar, !.cdone = r.pc = "idle",
                        !.between = race.ppc = "store" /\ race.pEmpty,
                        !.pEmpty = @ /\ race.ppc # "store"]
        /\ UNCHANGED <<queue, pushed, popped, pushRun, last, prior, cycle>>

\* The consumer runs its next statement.
ConsumerStep ==
    LET r == read_char_stmt(race.cpc, cBuffer)
    IN  /\ race.cpc \in {"advance", "load"}
        /\ cBuffer' = r.cBuffer
        /\ race' = [race EXCEPT
                        !.cpc = r.pc, !.cstatus = r.status,
                        !.cout = r.readChar, !.cdone = r.pc = "idle"]
        /\ UNCHANGED <<queue, pushed, popped, pushRun, last, prior, cycle>>

RaceNext ==
    \/ ProducerCall
    \/ ProducerStep
    \/ ConsumerCall
    \/ ConsumerStep

SpecRace == Init /\ [][RaceNext]_vars

(* ------------------------------ claims -------------------------------- *)
\* The unread bytes as the buffer holds them, oldest first.
Unread(cb) ==
    [i \in 1 .. cBuffer_get_usedSpace(cb) |->
        cb.data[(cb.front + i) % C_BUFFER_SIZE]]

IsFull(cb) == ((cb.rear + 1) % C_BUFFER_SIZE) = cb.front

\* C1: FIFO order.  In every reachable state the slots
\* data[(front + 1 + i) mod C], i in 0 .. used_space - 1, hold exactly the
\* bytes pushed with success and not yet popped, in push order, and every
\* successful cBuffer_read_char returned the oldest unread byte.
FifoOrder ==
    /\ Unread(cBuffer) = queue
    /\ (last.op = "cBuffer_read_char" /\ last.status = CBUFFER_SUCCESS)
           => /\ last.preQueue # <<>>
              /\ last.out = Head(last.preQueue)
              /\ queue = Tail(last.preQueue)

\* C1 witness: a successful pop from a wrapped buffer holding two
\* different bytes.
FifoOrderWitness ==
    /\ last.op = "cBuffer_read_char"
    /\ last.status = CBUFFER_SUCCESS
    /\ Len(last.preQueue) >= 2
    /\ last.preQueue[1] # last.preQueue[2]
    /\ last.pre.rear < last.pre.front

\* C2: conservation.  In every reachable state
\* used_space + available_space = C - 1.
Conservation ==
    cBuffer_get_usedSpace(cBuffer) + cBuffer_get_availableSpace(cBuffer)
        = C_BUFFER_SIZE - 1

\* C2 witness: a wrapped buffer that is neither empty nor full.
ConservationWitness ==
    /\ cBuffer.rear < cBuffer.front
    /\ cBuffer_get_usedSpace(cBuffer) > 0
    /\ cBuffer_get_availableSpace(cBuffer) > 0

\* C3: capacity bound.  Of the cBuffer_add_char calls made right after
\* cBuffer_Init with no other call between them, the first C - 1 return
\* CBUFFER_SUCCESS and the C-th returns CBUFFER_FULL.
CapacityBound ==
    (last.op = "cBuffer_add_char" /\ pushRun \in 1 .. C_BUFFER_SIZE)
        => /\ (pushRun <= C_BUFFER_SIZE - 1 => last.status = CBUFFER_SUCCESS)
           /\ (pushRun = C_BUFFER_SIZE => last.status = CBUFFER_FULL)

\* C3 witness: the C-th consecutive push after cBuffer_Init was refused.
CapacityBoundWitness ==
    /\ last.op = "cBuffer_add_char"
    /\ pushRun = C_BUFFER_SIZE
    /\ last.status = CBUFFER_FULL
    /\ pushed = C_BUFFER_SIZE - 1

\* The last two calls were cBuffer_add_string(s), successful on an empty
\* buffer, and then cBuffer_read_string(len(s)).
RoundTripCase ==
    /\ last.op = "cBuffer_read_string"
    /\ prior.op = "cBuffer_add_string"
    /\ prior.wasEmpty
    /\ last.str_length = Len(prior.stringData)

\* C4 as claimed: the round trip returns CBUFFER_SUCCESS, yields s followed
\* by 0 and leaves the buffer empty.
RoundTripLeavesEmpty ==
    RoundTripCase
        => /\ last.status = CBUFFER_SUCCESS
           /\ last.dest = Append(prior.stringData, 0)
           /\ cBuffer_get_usedSpace(cBuffer) = 0

\* C4 amended: the round trip returns CBUFFER_SUCCESS and yields s followed
\* by 0, and leaves one unread byte, the terminator 0 that
\* cBuffer_add_string stored.
RoundTripLeavesTerminator ==
    RoundTripCase
        => /\ last.status = CBUFFER_SUCCESS
           /\ last.dest = Append(prior.stringData, 0)
           /\ cBuffer_get_usedSpace(cBuffer) = 1
           /\ Unread(cBuffer) = <<0>>
           /\ queue = <<0>>

\* C4 witness: the round trip of a string of the greatest length that fits.
RoundTripWitness ==
    /\ RoundTripCase
    /\ last.status = CBUFFER_SUCCESS
    /\ Len(prior.stringData) >= 1
    /\ last.pre.rear < last.pre.front

\* C5: overflow atomicity.  cBuffer_add_string(s) called with
\* available_space < len(s) + 1 returns CBUFFER_OVERFLOW and leaves data,
\* front and rear as they were.
OverflowAtomic ==
    (/\ last.op = "cBuffer_add_string"
     /\ cBuffer_get_availableSpace(last.pre) < Len(last.stringData) + 1)
        => /\ last.status = CBUFFER_OVERFLOW
           /\ cBuffer = last.pre
           /\ queue = last.preQueue

\* C5 witness: the empty string refused with CBUFFER_OVERFLOW by a full
\* buffer.
OverflowAtomicWitness ==
    /\ last.op = "cBuffer_add_string"
    /\ last.status = CBUFFER_OVERFLOW
    /\ last.stringData = <<>>
    /\ IsFull(last.pre)

\* C6: read underflow.  cBuffer_read_string(n) called with used_space < n
\* returns CBUFFER_FAIL and leaves front, rear and data as they were.
ReadUnderflow ==
    (/\ last.op = "cBuffer_read_string"
     /\ cBuffer_get_usedSpace(last.pre) < last.str_length)
        => /\ last.status = CBUFFER_FAIL
           /\ cBuffer = last.pre
           /\ queue = last.preQueue

\* C6 witness: a read of more bytes than a non-empty buffer holds.
ReadUnderflowWitness ==
    /\ last.op = "cBuffer_read_string"
    /\ last.status = CBUFFER_FAIL
    /\ cBuffer_get_usedSpace(last.pre) > 0
    /\ cBuffer_get_usedSpace(last.pre) < last.str_length

\* C7: cBuffer_add_char on a full buffer, (rear + 1) mod C = front, returns
\* CBUFFER_FULL and changes nothing; on any other buffer it returns
\* CBUFFER_SUCCESS, sets rear to (rear + 1) mod C, stores the byte there
\* and changes no other slot and not front.
PushByteEffect ==
    last.op = "cBuffer_add_char"
        => IF IsFull(last.pre)
           THEN /\ last.status = CBUFFER_FULL
                /\ cBuffer = last.pre
           ELSE /\ last.status = CBUFFER_SUCCESS
                /\ cBuffer.rear = (last.pre.rear + 1) % C_BUFFER_SIZE
                /\ cBuffer.front = last.pre.front
                /\ cBuffer.data =
                       [last.pre.data EXCEPT ![cBuffer.rear] = last.data]

\* C7 witness: a push refused by a full, wrapped buffer.
PushByteFullWitness ==
    /\ last.op = "cBuffer_add_char"
    /\ last.status = CBUFFER_FULL
    /\ IsFull(last.pre)
    /\ last.pre.rear < last.pre.front

\* C8: empty disambiguation.  front = rear exactly when no pushed byte is
\* unread; cBuffer_read_char returns CBUFFER_EMPTY exactly then, changing
\* nothing, and otherwise returns CBUFFER_SUCCESS with front advanced to
\* (front + 1) mod C and rear and data unchanged.
EmptyDisambiguation ==
    /\ (cBuffer.front = cBuffer.rear) <=> (queue = <<>>)
    /\ last.op = "cBuffer_read_char"
           => IF last.pre.front = last.pre.rear
              THEN /\ last.status = CBUFFER_EMPTY
                   /\ cBuffer = last.pre
              ELSE /\ last.status = CBUFFER_SUCCESS
                   /\ cBuffer.front = (last.pre.front + 1) % C_BUFFER_SIZE
                   /\ cBuffer.rear = last.pre.rear
                   /\ cBuffer.data = last.pre.data

\* C8 witness: a pop refused by a buffer drained at a non-zero index.
EmptyDisambiguationWitness ==
    /\ last.op = "cBuffer_read_char"
    /\ last.status = CBUFFER_EMPTY
    /\ cBuffer.front = cBuffer.rear
    /\ cBuffer.front > 0
    /\ popped > 0

\* C9: used_space accounting.  used_space is the number of bytes pushed
\* minus the number popped by successful calls since the last cBuffer_Init
\* or cBuffer_Clean, and it is 0 exactly when no pushed byte is unread.
UsedAccounting ==
    /\ cBuffer_get_usedSpace(cBuffer) = pushed - popped
    /\ (cBuffer_get_usedSpace(cBuffer) = 0) <=> (queue = <<>>)

\* C9 witness: bytes are unread after more than C pushes and some pops,
\* string calls among them.
UsedAccountingWitness ==
    /\ pushed > C_BUFFER_SIZE
    /\ popped > 0
    /\ cBuffer_get_usedSpace(cBuffer) > 0
    /\ last.op = "cBuffer_add_string"
    /\ last.status = CBUFFER_SUCCESS

\* C10: full agreement.  available_space = 0 exactly when
\* (rear + 1) mod C = front, which is exactly when the next
\* cBuffer_add_char returns CBUFFER_FULL.
FullAgreement ==
    /\ (cBuffer_get_availableSpace(cBuffer) = 0) <=> IsFull(cBuffer)
    /\ \A data \in Byte :
           (cBuffer_get_availableSpace(cBuffer) = 0)
               <=> (cBuffer_add_char(cBuffer, data).status = CBUFFER_FULL)
    /\ last.op = "cBuffer_add_char"
           => ((cBuffer_get_availableSpace(last.pre) = 0)
                   <=> (last.status = CBUFFER_FULL))

\* C10 witness: no space is available and the push just made was refused.
FullAgreementWitness ==
    /\ cBuffer_get_availableSpace(cBuffer) = 0
    /\ last.op = "cBuffer_add_char"
    /\ last.status = CBUFFER_FULL

\* The result of the k-th of k consecutive cBuffer_read_char calls on cb.
RECURSIVE NthPop(_, _)
NthPop(cb, k) ==
    LET r == cBuffer_read_char(cb)
    IN  IF k <= 1 THEN r ELSE NthPop(r.cBuffer, k - 1)

\* C11: cBuffer_add_string success.  Called with
\* available_space >= len(s) + 1 it returns CBUFFER_SUCCESS, appends the
\* bytes of s in order and then one 0 byte to the unread bytes (so
\* data[rear] = 0), raises used_space by len(s) + 1 and leaves front and
\* the bytes unread before the call as they were.
PushStringEffect ==
    (/\ last.op = "cBuffer_add_string"
     /\ cBuffer_get_availableSpace(last.pre) >= Len(last.stringData) + 1)
        => /\ last.status = CBUFFER_SUCCESS
           /\ Unread(cBuffer) = Unread(last.pre) \o last.stringData \o <<0>>
           /\ queue = last.preQueue \o last.stringData \o <<0>>
           /\ cBuffer.data[cBuffer.rear] = 0
           /\ cBuffer_get_usedSpace(cBuffer)
                  = cBuffer_get_usedSpace(last.pre) + Len(last.stringData) + 1
           /\ cBuffer.front = last.pre.front

\* C11 witness: a string of one character added behind an unread byte,
\* across the end of the array.
PushStringWitness ==
    /\ last.op = "cBuffer_add_string"
    /\ last.status = CBUFFER_SUCCESS
    /\ Len(last.stringData) = 1
    /\ last.preQueue # <<>>
    /\ cBuffer.rear < last.pre.rear

\* C12: cBuffer_read_string success.  Called with used_space >= n it
\* returns CBUFFER_SUCCESS, pops exactly n bytes whatever their values,
\* sets dest[0 .. n - 1] to the n oldest unread bytes in order and dest[n]
\* to 0, lowers used_space by n and leaves rear and data as they were.
ReadStringEffect ==
    (/\ last.op = "cBuffer_read_string"
     /\ cBuffer_get_usedSpace(last.pre) >= last.str_length)
        => /\ last.status = CBUFFER_SUCCESS
           /\ last.dest
                  = SubSeq(Unread(last.pre), 1, last.str_length) \o <<0>>
           /\ last.dest = SubSeq(last.preQueue, 1, last.str_length) \o <<0>>
           /\ queue = SubSeq(last.preQueue, last.str_length + 1,
                             Len(last.preQueue))
           /\ cBuffer_get_usedSpace(cBuffer)
                  = cBuffer_get_usedSpace(last.pre) - last.str_length
           /\ cBuffer.front
                  = (last.pre.front + last.str_length) % C_BUFFER_SIZE
           /\ cBuffer.rear = last.pre.rear
           /\ cBuffer.data = last.pre.data

\* C12 witness: three bytes read, the first of them a stored 0 byte.
ReadStringWitness ==
    /\ last.op = "cBuffer_read_string"
    /\ last.status = CBUFFER_SUCCESS
    /\ last.str_length = 3
    /\ last.dest[1] = 0
    /\ last.dest[2] # 0

\* C13: cBuffer_peek result.  peek(i) returns CBUFFER_FAIL exactly when
\* i >= used_space; otherwise it returns CBUFFER_SUCCESS with
\* data[(front + i + 1) mod C], the (i + 1)-th oldest unread byte, which is
\* what the (i + 1)-th of i + 1 consecutive cBuffer_read_char calls returns.
PeekResult ==
    last.op = "cBuffer_peek"
        => IF last.peekIndex >= cBuffer_get_usedSpace(last.pre)
           THEN last.status = CBUFFER_FAIL
           ELSE /\ last.status = CBUFFER_SUCCESS
                /\ last.out = last.pre.data[
                       (last.pre.front + last.peekIndex + 1) % C_BUFFER_SIZE]
                /\ last.out = last.preQueue[last.peekIndex + 1]
                /\ NthPop(last.pre, last.peekIndex + 1).status
                       = CBUFFER_SUCCESS
                /\ last.out
                       = NthPop(last.pre, last.peekIndex + 1).readChar

\* C13 witness: a peek at the newest of three unread bytes, which differs
\* from the oldest, in a wrapped buffer.
PeekResultWitness ==
    /\ last.op = "cBuffer_peek"
    /\ last.status = CBUFFER_SUCCESS
    /\ last.peekIndex = 2
    /\ last.out # last.preQueue[1]
    /\ last.pre.rear < last.pre.front

\* C14: cBuffer_peek is non-destructive.  Whether it succeeds or fails it
\* leaves front, rear and data as they were, so used_space and
\* available_space keep their values and a second peek at the same index
\* returns the same status and byte; cBuffer_get_usedSpace and
\* cBuffer_get_availableSpace leave the buffer unchanged too.
PeekNonDestructive ==
    /\ [](last.op \in {"cBuffer_peek", "cBuffer_get_usedSpace",
                        "cBuffer_get_availableSpace"}
             => /\ cBuffer = last.pre
                /\ queue = last.preQueue
                /\ cBuffer_get_usedSpace(cBuffer)
                       = cBuffer_get_usedSpace(last.pre)
                /\ cBuffer_get_availableSpace(cBuffer)
                       = cBuffer_get_availableSpace(last.pre))
    /\ [][(/\ last.op = "cBuffer_peek"
           /\ last'.op = "cBuffer_peek"
           /\ last'.peekIndex = last.peekIndex)
              => /\ last'.status = last.status
                 /\ last'.out = last.out
                 /\ cBuffer' = cBuffer]_vars

\* C14 witness: a successful peek past the oldest byte that left the
\* buffer as it was.
PeekNonDestructiveWitness ==
    /\ last.op = "cBuffer_peek"
    /\ last.status = CBUFFER_SUCCESS
    /\ last.peekIndex >= 1
    /\ cBuffer = last.pre
    /\ cBuffer_get_usedSpace(cBuffer) >= 2

\* C15: reset.  cBuffer_Init sets every slot to 0 and front = rear = 0
\* (used_space = 0, available_space = C - 1); applying it again gives the
\* same buffer, and cBuffer_Clean gives the buffer cBuffer_Init gives.
ResetEffect ==
    last.op \in {"cBuffer_Init", "cBuffer_Clean"}
        => /\ cBuffer.data = [i \in Index |-> 0]
           /\ cBuffer.front = 0
           /\ cBuffer.rear = 0
           /\ cBuffer_get_usedSpace(cBuffer) = 0
           /\ cBuffer_get_availableSpace(cBuffer) = C_BUFFER_SIZE - 1
           /\ queue = <<>>
           /\ cBuffer_Init(cBuffer) = cBuffer
           /\ cBuffer_Clean(cBuffer) = cBuffer
           /\ cBuffer_Clean(last.pre) = cBuffer_Init(last.pre)

\* C15 witness: cBuffer_Clean called on a buffer with unread bytes, a
\* non-zero slot and both indices off 0.
ResetWitness ==
    /\ last.op = "cBuffer_Clean"
    /\ last.preQueue # <<>>
    /\ last.pre.front > 0
    /\ last.pre.rear > 0
    /\ \E i \in Index : last.pre.data[i] # 0

\* C16: index bounds.  front and rear stay in 0 .. C - 1, and the slot a
\* successful cBuffer_add_char, cBuffer_read_char or cBuffer_peek accesses
\* has an index in 0 .. C - 1; a failing call accesses none.
IndexBounds ==
    /\ cBuffer.front \in Index
    /\ cBuffer.rear \in Index
    /\ last.op \in {"cBuffer_add_char", "cBuffer_read_char", "cBuffer_peek"}
           => IF last.status = CBUFFER_SUCCESS
              THEN last.idx \in Index
              ELSE last.idx = NoWrite

\* C16 witness: a peek whose front + index + 1 reaches past the end of the
\* array and is brought back by the modulo.
IndexBoundsWitness ==
    /\ last.op = "cBuffer_peek"
    /\ last.status = CBUFFER_SUCCESS
    /\ last.pre.front + last.peekIndex + 1 >= C_BUFFER_SIZE
    /\ last.idx < last.pre.front

\* C17: wrap-around.  From an empty buffer with front = rear = k, whatever
\* k is, the first C - 1 consecutive cBuffer_add_char calls return
\* CBUFFER_SUCCESS and the C-th CBUFFER_FULL; the C - 1 cBuffer_read_char
\* calls that follow return the pushed bytes in push order and the next
\* one CBUFFER_EMPTY.  In the states with rear < front the capacity,
\* conservation and FIFO properties hold.
WrapAround ==
    /\ (cycle.pops = 0 /\ cycle.pushes \in 1 .. (C_BUFFER_SIZE - 1))
           => /\ last.op = "cBuffer_add_char"
              /\ last.status = CBUFFER_SUCCESS
              /\ Len(cycle.sent) = cycle.pushes
    /\ (cycle.pops = 0 /\ cycle.pushes = C_BUFFER_SIZE)
           => /\ last.op = "cBuffer_add_char"
              /\ last.status = CBUFFER_FULL
              /\ Len(cycle.sent) = C_BUFFER_SIZE - 1
    /\ cycle.pops \in 1 .. (C_BUFFER_SIZE - 1)
           => /\ last.op = "cBuffer_read_char"
              /\ last.status = CBUFFER_SUCCESS
              /\ last.out = cycle.sent[cycle.pops]
              /\ cycle.got = SubSeq(cycle.sent, 1, cycle.pops)
    /\ cycle.pops = C_BUFFER_SIZE
           => /\ last.op = "cBuffer_read_char"
              /\ last.status = CBUFFER_EMPTY
              /\ cycle.got = cycle.sent
    /\ cBuffer.rear < cBuffer.front
           => /\ cBuffer_get_usedSpace(cBuffer) \in 1 .. (C_BUFFER_SIZE - 1)
              /\ cBuffer_get_usedSpace(cBuffer)
                     + cBuffer_get_availableSpace(cBuffer)
                     = C_BUFFER_SIZE - 1
              /\ Unread(cBuffer) = queue
              /\ \A data \in Byte :
                     (Len(queue) = C_BUFFER_SIZE - 1)
                         <=> (cBuffer_add_char(cBuffer, data).status
                                 = CBUFFER_FULL)

\* C17 witness: a buffer emptied at index C - 1 was filled across the end
\* of the array with bytes that differ, refused the C-th push, was drained
\* and refused the C-th pop.
WrapAroundWitness ==
    /\ cycle.start = C_BUFFER_SIZE - 1
    /\ cycle.pushes = C_BUFFER_SIZE
    /\ cycle.pops = C_BUFFER_SIZE
    /\ cycle.sent[1] # cycle.sent[2]
    /\ cBuffer.front = (cycle.start + C_BUFFER_SIZE - 1) % C_BUFFER_SIZE

\* C18: unserialized producer and consumer.  cBuffer_add_char advances
\* rear before it stores the byte, so a cBuffer_read_char that runs whole
\* between the two assignments of a push begun on an empty buffer returns
\* CBUFFER_SUCCESS with what the slot held before the push.
RaceStaleRead ==
    (race.cdone /\ race.between)
        => /\ race.ppc = "store"
           /\ race.cstatus = CBUFFER_SUCCESS
           /\ race.cout = race.stale
           /\ cBuffer.front = cBuffer.rear

\* C18 witness: FIFO order is broken: the pop returned a byte other than
\* the only byte being pushed, which is not stored yet.
RaceFifoViolation ==
    /\ race.cdone
    /\ race.between
    /\ race.ppc = "store"
    /\ race.cstatus = CBUFFER_SUCCESS
    /\ race.cout # race.pdata

AllSuccess(inner) == \A i \in 1 .. Len(inner) : inner[i] = CBUFFER_SUCCESS

\* C19: the ignored statuses are CBUFFER_SUCCESS.  Once cBuffer_add_string
\* has passed its space check each of its len(s) + 1 cBuffer_add_char
\* calls returns CBUFFER_SUCCESS, and once cBuffer_read_string has passed
\* its check each of its n cBuffer_read_char calls does.
InnerAlwaysSuccess ==
    /\ (/\ last.op = "cBuffer_add_string"
        /\ last.status # CBUFFER_OVERFLOW)
           => /\ cBuffer_get_availableSpace(last.pre)
                     >= Len(last.stringData) + 1
              /\ Len(last.inner) = Len(last.stringData) + 1
              /\ AllSuccess(last.inner)
    /\ (/\ last.op = "cBuffer_read_string"
        /\ last.status # CBUFFER_FAIL)
           => /\ cBuffer_get_usedSpace(last.pre) >= last.str_length
              /\ Len(last.inner) = last.str_length
              /\ AllSuccess(last.inner)

\* C19 witness: a string that took the last free slots, across the end of
\* the array.
InnerAlwaysSuccessWitness ==
    /\ last.op = "cBuffer_add_string"
    /\ Len(last.inner) >= 2
    /\ AllSuccess(last.inner)
    /\ IsFull(cBuffer)
    /\ cBuffer.rear < last.pre.rear

\* C20: no unsigned wrap.  The subtractions of cBuffer_get_usedSpace and
\* cBuffer_get_availableSpace give what they give over the integers, both
\* results are in 0 .. C - 1, and rear + 1, front + 1 and the
\* front + index + 1 of a successful peek are at most 2C - 1.
NoUnsignedWrap ==
    LET f == cBuffer.front
        r == cBuffer.rear
    IN  /\ cBuffer_get_usedSpace(cBuffer)
               = IF r >= f THEN r - f ELSE C_BUFFER_SIZE - (f - r)
        /\ cBuffer_get_availableSpace(cBuffer)
               = IF f > r THEN f - r - 1 ELSE C_BUFFER_SIZE - (r - f + 1)
        /\ cBuffer_get_usedSpace(cBuffer) \in 0 .. (C_BUFFER_SIZE - 1)
        /\ cBuffer_get_availableSpace(cBuffer) \in 0 .. (C_BUFFER_SIZE - 1)
        /\ r + 1 <= 2 * C_BUFFER_SIZE - 1
        /\ f + 1 <= 2 * C_BUFFER_SIZE - 1
        /\ (last.op = "cBuffer_peek" /\ last.status = CBUFFER_SUCCESS)
               => last.pre.front + last.peekIndex + 1
                      <= 2 * C_BUFFER_SIZE - 1

\* C20 witness: a successful peek at the newest byte of a full, wrapped
\* buffer.
NoUnsignedWrapWitness ==
    /\ last.op = "cBuffer_peek"
    /\ last.status = CBUFFER_SUCCESS
    /\ last.peekIndex = C_BUFFER_SIZE - 2
    /\ cBuffer.rear < cBuffer.front
    /\ IsFull(cBuffer)

\* C21: destination write bound.  A successful cBuffer_read_string(n)
\* writes the destination indices 0 .. n, each with a byte, and a failing
\* one writes none; n is at most used_space, which is at most C - 1, so
\* the highest index written is at most C - 1 and a destination of C
\* bytes holds every call, while index n lies one past the end of a
\* destination of n bytes.
DestWriteBound ==
    last.op = "cBuffer_read_string"
        => IF last.status = CBUFFER_SUCCESS
           THEN /\ DOMAIN last.dest = 1 .. (last.str_length + 1)
                /\ \A i \in DOMAIN last.dest : last.dest[i] \in Byte
                /\ last.str_length <= cBuffer_get_usedSpace(last.pre)
                /\ cBuffer_get_usedSpace(last.pre) <= C_BUFFER_SIZE - 1
                /\ Len(last.dest) - 1 <= C_BUFFER_SIZE - 1
                /\ Len(last.dest) <= C_BUFFER_SIZE
                /\ Len(last.dest) - 1 \notin 0 .. (last.str_length - 1)
           ELSE last.dest = <<>>

\* C21 witness: a read of C - 1 bytes from a full, wrapped buffer, which
\* writes the destination up to index C - 1.
DestWriteBoundWitness ==
    /\ last.op = "cBuffer_read_string"
    /\ last.status = CBUFFER_SUCCESS
    /\ last.str_length = C_BUFFER_SIZE - 1
    /\ Len(last.dest) = C_BUFFER_SIZE
    /\ last.pre.rear < last.pre.front

====
